---- MODULE Spec2Model ----
(***************************************************************************)
(* Data-Cleaning-Agent: the Cleaner's transformations                      *)
(* (backend/src/agents/Cleaner/transformations.js) and the Analyzer's      *)
(* detectors, as state machines over a record set.                         *)
(*                                                                         *)
(* A JavaScript value is a record [t, n, d, s]: t is the type tag, n/d a   *)
(* number in lowest terms (d > 0), s a string.  Every number the code      *)
(* computes here is a rational (sums, k * iqr with k = 3/2, a mean), so    *)
(* the arithmetic is exact.                                                *)
(***************************************************************************)
EXTENDS Integers, Sequences, FiniteSets, TLC

VARIABLES
    records,    \* the caller's record sequence (the array handed to apply / the DataFrame's rows)
    tf,         \* the Transformation object: name, params, destructive
    ctor,       \* the params the Transformation was constructed with
    calls,      \* the apply calls made so far: the caller's records before and after, and the outcome
    issues,     \* Analyzer.issues, the array the detectors push to
    reports,    \* what each runAll / detector call gave its caller, oldest first
    host,       \* the date grammar of the JavaScript host (Date.parse on non-ISO text)
    sim,        \* the fuzzy matches Fuse finds: the pairs {x, y} of strings scoring under the cut-off
    cls         \* the source file whose Analyzer class the Analyzer object is an instance of

vars == <<records, tf, ctor, calls, issues, reports, host, sim, cls>>

(***************************************************************************)
(* Bounds of the model                                                     *)
(***************************************************************************)
MaxRows == 3        \* rows of a record set with mixed cells
ClipRows == 5       \* rows of a record set handed to ClipOutliersIQR
MaxApply == 2       \* apply calls in one behaviour
MaxLit == 12        \* the integers 0 .. MaxLit are written out as numeric strings
MaxRuns == 2        \* runAll calls on one Analyzer
TallRows == 5       \* rows of a DataFrame with a numeric column

(***************************************************************************)
(* JavaScript values                                                       *)
(***************************************************************************)
undefined == "undefined"    \* a key that the params object does not have

Null == [t |-> "null", n |-> 0, d |-> 1, s |-> ""]
Undef == [t |-> "undefined", n |-> 0, d |-> 1, s |-> ""]
NaN == [t |-> "nan", n |-> 0, d |-> 1, s |-> ""]
Str(x) == [t |-> "str", n |-> 0, d |-> 1, s |-> x]
Bool(b) == [t |-> "bool", n |-> IF b THEN 1 ELSE 0, d |-> 1, s |-> ""]

Abs(x) == IF x < 0 THEN -x ELSE x

RECURSIVE Gcd(_, _)
Gcd(a, b) == IF b = 0 THEN a ELSE Gcd(b, a % b)

\* the number n/d, d > 0, in lowest terms
Rat(n, d) ==
    LET g == Gcd(Abs(n), d)
    IN  [t |-> "num", n |-> n \div g, d |-> d \div g, s |-> ""]

Num(n) == Rat(n, 1)

Add(a, b) == Rat(a.n * b.d + b.n * a.d, a.d * b.d)
Sub(a, b) == Rat(a.n * b.d - b.n * a.d, a.d * b.d)
Mul(a, b) == Rat(a.n * b.n, a.d * b.d)
DivInt(a, k) == Rat(a.n, a.d * k)
Lt(a, b) == a.n * b.d < b.n * a.d
Le(a, b) == a.n * b.d <= b.n * a.d
MathMin(a, b) == IF Lt(b, a) THEN b ELSE a
MathMax(a, b) == IF Lt(a, b) THEN b ELSE a

\* a === b
StrictEq(a, b) == a.t # "nan" /\ b.t # "nan" /\ a = b

\* the truthiness of a value (x || y, if (x))
Truthy(v) ==
    CASE v.t \in {"null", "undefined", "nan"} -> FALSE
      [] v.t = "num" -> v.n # 0
      [] v.t = "bool" -> v.n = 1
      [] OTHER -> v.s # ""

(***************************************************************************)
(* Strings: the conversions the code relies on                             *)
(***************************************************************************)
Digit(k) == <<"0", "1", "2", "3", "4", "5", "6", "7", "8", "9">>[k + 1]

RECURSIVE NatStr(_)
NatStr(k) == IF k < 10 THEN Digit(k) ELSE NatStr(k \div 10) \o Digit(k % 10)

\* String(x) of a number: an integer prints its digits, a half prints ".5"
NumStr(v) ==
    LET sign == IF v.n < 0 THEN "-" ELSE ""
    IN  IF v.d = 1 THEN sign \o NatStr(Abs(v.n))
        ELSE IF v.d = 2 THEN sign \o NatStr(Abs(v.n) \div 2) \o ".5"
        ELSE sign \o NatStr(Abs(v.n)) \o "/" \o NatStr(v.d)

\* String(v)
String(v) ==
    CASE v.t = "null" -> "null"
      [] v.t = "undefined" -> "undefined"
      [] v.t = "nan" -> "NaN"
      [] v.t = "num" -> NumStr(v)
      [] v.t = "bool" -> IF v.n = 1 THEN "true" ELSE "false"
      [] OTHER -> v.s

\* s.trim(): the blank strings of the model are "" and " "
Trim(s) == IF s = " " THEN "" ELSE s

\* s.toLowerCase()
ToLowerCase(s) ==
    CASE s = "NA" -> "na"
      [] s = "N/A" -> "n/a"
      [] s = "NULL" -> "null"
      [] OTHER -> s

\* the integers whose decimal text occurs as a string in the model
Literals == (0..MaxLit) \cup {100, 1000, 9000}

LiteralText == [k \in Literals |-> NatStr(k)]
LiteralTexts == {LiteralText[k] : k \in Literals}

IsLiteral(s) == s \in LiteralTexts
LiteralValue(s) == CHOOSE k \in Literals : LiteralText[k] = s

\* Number(s) of a string: blank is 0, a decimal integer literal is its value, the rest NaN
StringToNumber(s) ==
    IF Trim(s) = "" THEN Num(0)
    ELSE IF IsLiteral(s) THEN Num(LiteralValue(s))
    ELSE NaN

\* /^\d{4,}$/.test(s)
IsPlainYear(s) == IsLiteral(s) /\ LiteralValue(s) >= 1000

\* /^[-+]?\d+(?:\.\d+)?$/.test(s)
isStrictNumber(s) == IsLiteral(s)

\* s.length
StrLen(s) ==
    CASE s = "" -> 0
      [] s = "LONG" -> 1001
      [] IsLiteral(s) -> (IF LiteralValue(s) < 10 THEN 1 ELSE IF LiteralValue(s) < 100 THEN 2
                          ELSE IF LiteralValue(s) < 1000 THEN 3 ELSE 4)
      [] s = "2024-01-05" -> 10
      [] OTHER -> 3

\* Number(v)
Number(v) ==
    CASE v.t = "null" -> Num(0)
      [] v.t = "undefined" -> NaN
      [] v.t = "nan" -> NaN
      [] v.t = "num" -> v
      [] v.t = "bool" -> Num(v.n)
      [] OTHER -> StringToNumber(v.s)

\* isNaN(v): the global isNaN converts its argument with Number first
isNaN(v) == Number(v).t = "nan"

\* Date.parse(s) in days since the epoch, NaN when s is no date.  ISO text parses on
\* every host; what a host makes of other text is its own choice: a legacy grammar
\* reads a short run of digits as a date ("1" is a day of 2001), a strict one does not.
DateParse(s) ==
    CASE s = "2024-01-05" -> Num(19727)
      [] IsLiteral(s) /\ LiteralValue(s) < 1000 /\ host = "legacy" -> Num(11323 + LiteralValue(s))
      [] IsLiteral(s) /\ LiteralValue(s) >= 1000 -> Num((LiteralValue(s) - 1970) * 365)
      [] OTHER -> NaN

(***************************************************************************)
(* Records: a record is a function from column names to cells              *)
(***************************************************************************)
\* r[c]: reading a key the object does not have gives undefined
Get(r, c) == IF c \in DOMAIN r THEN r[c] ELSE Undef

\* r[c] = v
Put(r, c, v) == [x \in (DOMAIN r) \cup {c} |-> IF x = c THEN v ELSE r[x]]

\* a slice that cuts nothing off
SliceWhole(arr, k) == arr

\* arr.slice(0, n)
Slice(arr, k) == SubSeq(arr, 1, IF Len(arr) < k THEN Len(arr) ELSE k)

\* sampleArray / records.slice(0, 5).map((r) => r[column])
BeforeSample(recs, column) ==
    LET head == Slice(recs, 5)
    IN  [i \in 1..Len(head) |-> Get(head[i], column)]

RECURSIVE SumSeq(_)
SumSeq(q) == IF q = <<>> THEN 0 ELSE Head(q) + SumSeq(Tail(q))

\* nums.sort((a, b) => a - b): ascending, by insertion
RECURSIVE Insert(_, _)
Insert(x, q) ==
    IF q = <<>> THEN <<x>>
    ELSE IF Lt(x, Head(q)) THEN <<x>> \o q
    ELSE <<Head(q)>> \o Insert(x, Tail(q))

RECURSIVE SortNums(_)
SortNums(q) == IF q = <<>> THEN <<>> ELSE Insert(Head(q), SortNums(Tail(q)))

(***************************************************************************)
(* Object.assign({}, r) and the writes to the copy.  A pair holds the      *)
(* caller's object (src) and the object apply works on (copy); a write     *)
(* reaches src only when the two are the same object.                      *)
(***************************************************************************)
NoCopy(r) == [src |-> r, copy |-> r, alias |-> TRUE]

ObjectAssign(r) == [src |-> r, copy |-> r, alias |-> FALSE]

\* copy[c] = v
Assign(p, c, v) ==
    [p EXCEPT !.copy = Put(p.copy, c, v),
              !.src = IF p.alias THEN Put(p.src, c, v) ELSE p.src]

Returned(recs, evidence, caller) ==
    [status |-> "returned", records |-> recs, evidence |-> evidence, caller |-> caller]

Threw(error, caller) ==
    [status |-> "threw", error |-> error, caller |-> caller]

\* the rows of a records.map(...) whose callback gave the pairs ps
Copies(ps) == [i \in 1..Len(ps) |-> ps[i].copy]
Sources(ps) == [i \in 1..Len(ps) |-> ps[i].src]
Changed(ps) == SumSeq([i \in 1..Len(ps) |-> ps[i].changed])

(***************************************************************************)
(* Transformation (base class) and its four subclasses                     *)
(***************************************************************************)
NoParams ==
    [column |-> "a", k |-> Undef, method |-> undefined,
     flag_column_name |-> undefined, strategy |-> undefined, value |-> Undef]

Transformation(name, params, destructive) ==
    [name |-> name, params |-> params, destructive |-> destructive]

NoTransformation == Transformation("none", NoParams, FALSE)

\* ---- CoerceNumeric ------------------------------------------------------
NewCoerceNumeric(params) == Transformation("coerce_numeric", params, FALSE)

\* a CoerceNumeric that stores Number(v) as it is, NaN included
CoerceNumericRowKeepNaN(r, column) ==
    LET p == ObjectAssign(r)
        v == Get(p.copy, column)
        num == IF StrictEq(v, Null) \/ StrictEq(v, Undef) \/ StrictEq(v, Str(""))
               THEN Null ELSE Number(v)
        inc == IF ~StrictEq(v, num) /\ ~(StrictEq(v, Null) /\ StrictEq(num, Null))
               THEN (IF StrictEq(num, v) THEN 0 ELSE 1)
               ELSE 0
        q == Assign(p, column, num)
    IN  [src |-> q.src, copy |-> q.copy, changed |-> inc]

CoerceNumericRow(r, column) ==
    LET p == ObjectAssign(r)
        v == Get(p.copy, column)
        num == IF StrictEq(v, Null) \/ StrictEq(v, Undef) \/ StrictEq(v, Str(""))
               THEN Null ELSE Number(v)
        inc == IF ~StrictEq(v, num) /\ ~(StrictEq(v, Null) /\ StrictEq(num, Null))
               THEN (IF StrictEq(num, v) THEN 0 ELSE 1)
               ELSE 0
        q == Assign(p, column, IF isNaN(num) THEN Null ELSE num)
    IN  [src |-> q.src, copy |-> q.copy, changed |-> inc]

CoerceNumericApply(t, recs) ==
    LET column == t.params.column
        ps == [i \in 1..Len(recs) |-> CoerceNumericRow(recs[i], column)]
    IN  Returned(Copies(ps),
                 [before_sample |-> BeforeSample(recs, column), changed_count |-> Changed(ps)],
                 Sources(ps))

\* ---- CoerceDatetime -----------------------------------------------------
NewCoerceDatetime(params) == Transformation("coerce_datetime", params, FALSE)

\* Date.parse(String(v)), or null for an empty cell
DatetimeParsed(v) ==
    IF StrictEq(v, Null) \/ StrictEq(v, Undef) \/ StrictEq(v, Str(""))
    THEN Null ELSE DateParse(String(v))

\* `new Date.parse(parsed)` constructs with Date.parse, which is no constructor:
\* the row throws a TypeError whenever isNaN(parsed) is false
CoerceDatetimeRowThrows(r, column) == ~isNaN(DatetimeParsed(Get(r, column)))

CoerceDatetimeRow(r, column) ==
    LET p == ObjectAssign(r)
        v == Get(p.copy, column)
        parsed == DatetimeParsed(v)
        outv == Null
        inc == IF String(parsed) # String(outv) THEN 1 ELSE 0
        q == Assign(p, column, outv)
    IN  [src |-> q.src, copy |-> q.copy, changed |-> inc]

CoerceDatetimeApply(t, recs) ==
    LET column == t.params.column
        bad == {i \in 1..Len(recs) : CoerceDatetimeRowThrows(recs[i], column)}
        first == IF bad = {} THEN Len(recs) + 1 ELSE CHOOSE i \in bad : \A j \in bad : i <= j
        ps == [i \in 1..(first - 1) |-> CoerceDatetimeRow(recs[i], column)]
        caller == [i \in 1..Len(recs) |-> IF i < first THEN ps[i].src ELSE recs[i]]
    IN  IF bad # {}
        THEN Threw("TypeError", caller)
        ELSE Returned(Copies(ps),
                      [before_sample |-> BeforeSample(recs, column), changed_count |-> Changed(ps)],
                      caller)

\* ---- FillMissing --------------------------------------------------------
NewFillMissing(params) == Transformation("fill_missing", params, FALSE)

\* the cells FillMissing.apply treats as missing: null, undefined and ""
FillIsEmpty(v) == StrictEq(v, Null) \/ StrictEq(v, Undef) \/ StrictEq(v, Str(""))

\* values.map(Number).filter((x) => !isNaN(x))
NumericValues(values) ==
    LET nums == [i \in 1..Len(values) |-> Number(values[i])]
    IN  SelectSeq(nums, LAMBDA x : x.t # "nan")

RECURSIVE SumNums(_)
SumNums(q) == IF q = <<>> THEN Num(0) ELSE Add(Head(q), SumNums(Tail(q)))

FillMean(values) ==
    LET nums == NumericValues(values)
    IN  IF Len(nums) > 0 THEN DivInt(SumNums(nums), Len(nums)) ELSE Null

FillMedian(values) ==
    LET nums == SortNums(NumericValues(values))
    IN  IF Len(nums) > 0 THEN nums[(Len(nums) \div 2) + 1] ELSE Null

FillValue(params, values) ==
    LET strategy == IF params.strategy = undefined THEN "mean" ELSE params.strategy
    IN  CASE strategy = "mean" -> FillMean(values)
          [] strategy = "median" -> FillMedian(values)
          [] OTHER -> params.value

FillMissingRow(r, column, fillValue) ==
    LET p == ObjectAssign(r)
        hit == FillIsEmpty(Get(p.copy, column))
        q == IF hit THEN Assign(p, column, fillValue) ELSE p
    IN  [src |-> q.src, copy |-> q.copy, changed |-> IF hit THEN 1 ELSE 0]

\* strategy "mode" starts with  freq = {}  and freq is declared nowhere: a class body
\* is strict mode code, so the assignment throws a ReferenceError before any record
\* is read
FillMissingApply(t, recs) ==
    LET column == t.params.column
        cells == [i \in 1..Len(recs) |-> Get(recs[i], column)]
        values == SelectSeq(cells, LAMBDA v : ~FillIsEmpty(v))
        fillValue == FillValue(t.params, values)
        ps == [i \in 1..Len(recs) |-> FillMissingRow(recs[i], column, fillValue)]
    IN  IF t.params.strategy = "mode"
        THEN Threw("ReferenceError", recs)
        ELSE Returned(Copies(ps),
                      [before_records |-> BeforeSample(recs, column),
                       changed_count |-> Changed(ps),
                       filled_value |-> fillValue],
                      Sources(ps))

\* ---- ClipOutliersIQR ----------------------------------------------------
\* a ClipOutliersIQR constructor that passes destructive = false whatever the method
NewClipOutliersIQRSafe(params) ==
    Transformation("clip_outliers_iqr", params, FALSE)

NewClipOutliersIQR(params) ==
    Transformation("clip_outliers_iqr", params, params.method = "remove")

DefaultK == Rat(3, 2)

\* records.map((r) => Number(r[column])) without the NaN
ClipNums(recs, column) ==
    NumericValues([i \in 1..Len(recs) |-> Get(recs[i], column)])

\* the bounds ClipOutliersIQR.apply computes from the sorted numeric values
ClipUpper(q1, q3, k) == Add(q1, Mul(k, Sub(q3, q1)))

ClipBounds(nums, k) ==
    LET sorted == SortNums(nums)
        q1 == sorted[((Len(sorted) * 1) \div 4) + 1]
        q3 == sorted[((Len(sorted) * 3) \div 4) + 1]
        iqr == Sub(q3, q1)
    IN  [q1 |-> q1, q3 |-> q3,
         lower |-> Sub(q1, Mul(k, iqr)),
         upper |-> ClipUpper(q1, q3, k)]

\* !isNaN(v) && (v < lower || v > upper), v = Number(cell)
IsOutlier(cell, lower, upper) ==
    LET v == Number(cell)
    IN  v.t # "nan" /\ (Lt(v, lower) \/ Lt(upper, v))

ClipRow(r, column, lower, upper) ==
    LET p == ObjectAssign(r)
        v == Number(Get(p.copy, column))
        hit == IsOutlier(Get(p.copy, column), lower, upper)
        q == IF hit THEN Assign(p, column, MathMax(MathMin(v, upper), lower)) ELSE p
    IN  [src |-> q.src, copy |-> q.copy, changed |-> IF hit THEN 1 ELSE 0]

FlagRow(r, column, flag, lower, upper) ==
    LET p == ObjectAssign(r)
        old == Get(p.copy, flag)
        new == IF IsOutlier(Get(p.copy, column), lower, upper) THEN Bool(TRUE)
               ELSE IF Truthy(old) THEN old ELSE Bool(FALSE)
        q == Assign(p, flag, new)
    IN  [src |-> q.src, copy |-> q.copy, changed |-> IF Truthy(new) THEN 1 ELSE 0]

ClipOutliersIQRApply(t, recs) ==
    LET column == t.params.column
        k == IF t.params.k = Undef THEN DefaultK ELSE t.params.k
        method == IF t.params.method = undefined THEN "clip" ELSE t.params.method
        flag == IF t.params.flag_column_name = undefined THEN "_outliers"
                ELSE t.params.flag_column_name
        nums == ClipNums(recs, column)
        b == ClipBounds(nums, k)
        clipped == [i \in 1..Len(recs) |-> ClipRow(recs[i], column, b.lower, b.upper)]
        flagged == [i \in 1..Len(recs) |-> FlagRow(recs[i], column, flag, b.lower, b.upper)]
        kept == SelectSeq(recs, LAMBDA r : ~IsOutlier(Get(r, column), b.lower, b.upper))
    IN  IF Len(nums) < 5 THEN Returned(recs, [reason |-> "not_enough_numeric"], recs)
        ELSE CASE method = "clip" ->
                    Returned(Copies(clipped),
                             [method |-> method, lower |-> b.lower, upper |-> b.upper,
                              changed_count |-> Changed(clipped)],
                             Sources(clipped))
               [] method = "flag" ->
                    Returned(Copies(flagged),
                             [method |-> method, lower |-> b.lower, upper |-> b.upper,
                              flagged_count |-> Changed(flagged)],
                             Sources(flagged))
               [] method = "remove" ->
                    Returned(kept,
                             [method |-> method, lower |-> b.lower, upper |-> b.upper,
                              removed_count |-> Len(recs) - Len(kept)],
                             recs)
               [] OTHER -> Returned(recs, [reason |-> "unknown_method"], recs)

(***************************************************************************)
(* Analyzer (the class with _seriesValues): CONFIG, issue(), the schema    *)
(* and the seven detectors.  A DataFrame is its rows, each a function from *)
(* the column names to cells; row indices in issues count from 0.          *)
(***************************************************************************)
col_missing_threshold == Rat(1, 5)
row_missing_threshold == Rat(1, 2)
pk_uniqueness_threshold == Rat(49, 50)
outlier_iqr_k == Rat(3, 2)

null == "null"      \* a null column or suggestedFix of an issue

\* df.columns
Columns == <<"a", "b">>

\* issue(...): the id and the timestamp are fresh on every call and are left out
issue(scope, column, rows, issue_type, severity, score, evidence, suggestedFix) ==
    [scope |-> scope, column |-> column, rows |-> rows, issue_type |-> issue_type,
     severity |-> severity, score |-> score, evidence |-> evidence,
     suggestedFix |-> suggestedFix]

\* _seriesValues(df[col])
SeriesValues(df, col) == [i \in 1..Len(df) |-> Get(df[i], col)]

\* the indices (from 0) of the positions 1..n that are in hits, ascending
Indices(n, hits) ==
    LET sel == SelectSeq([i \in 1..n |-> i], LAMBDA i : i \in hits)
    IN  [j \in 1..Len(sel) |-> sel[j] - 1]

\* [...new Set(q)]: the distinct elements in order of first occurrence
RECURSIVE Distinct(_)
Distinct(q) ==
    IF q = <<>> THEN <<>>
    ELSE LET front == Distinct(SubSeq(q, 1, Len(q) - 1))
             last == q[Len(q)]
         IN  IF \E i \in 1..Len(front) : front[i] = last THEN front ELSE Append(front, last)

\* v !== null && v !== undefined && String(v).trim() !== ""
NonNull(v) == ~StrictEq(v, Null) /\ ~StrictEq(v, Undef) /\ Trim(String(v)) # ""

isValidDate(s) == IF IsPlainYear(s) THEN FALSE ELSE DateParse(s).t # "nan"

inferColumnType(values) ==
    LET vals == SelectSeq(values, NonNull)
        head == Slice(vals, 300)
        sample == [i \in 1..Len(head) |-> Trim(String(head[i]))]
        dateCount == Cardinality({i \in 1..Len(sample) : isValidDate(sample[i])})
        numCount == Cardinality({i \in 1..Len(sample) : isStrictNumber(sample[i])})
    IN  IF Len(vals) = 0 THEN "empty"
        ELSE IF Len(sample) > 0 /\ Le(Rat(9, 10), Rat(dateCount, Len(sample))) THEN "datetime"
        ELSE IF Len(sample) > 0 /\ Le(Rat(9, 10), Rat(numCount, Len(sample))) THEN "numeric"
        ELSE "string"

\* inferColumnType of Analyzer/Analyzer.js, given the column's values as an array: its
\* filter keeps a blank string, and its isValidDate ends in !NaN(timestamp), a call of
\* the number NaN, which throws a TypeError for the first sampled value that is no
\* bare run of 4 or more digits
LegacyInferColumnType(values) ==
    LET nonNull == SelectSeq(values, LAMBDA v : ~StrictEq(v, Null) /\ v.t # "undefined"
                                                /\ ~StrictEq(v, Str("")))
        sample == Slice([i \in 1..Len(nonNull) |-> String(nonNull[i])], 300)
        numCount == Cardinality({i \in 1..Len(sample) : isStrictNumber(Trim(sample[i]))})
    IN  IF Len(nonNull) = 0 THEN [status |-> "returned", type |-> "empty"]
        ELSE IF \E i \in 1..Len(sample) : ~IsPlainYear(sample[i])
        THEN [status |-> "TypeError", type |-> "none"]
        ELSE IF Le(Rat(9, 10), Rat(numCount, Len(sample)))
        THEN [status |-> "returned", type |-> "numeric"]
        ELSE [status |-> "returned", type |-> "string"]

ColumnProfile(df, col) ==
    LET arr == SeriesValues(df, col)
        nonNull == SelectSeq(arr, NonNull)
        missing_count == Len(arr) - Len(nonNull)
    IN  [inferred_type |-> inferColumnType(arr),
         missing_count |-> missing_count,
         missing_pct |-> IF Len(arr) = 0 THEN Num(0) ELSE Rat(missing_count, Len(arr)),
         nunique |-> Cardinality({String(nonNull[i]) : i \in 1..Len(nonNull)}),
         example |-> Slice(nonNull, 5)]

inferSchema(df) == [i \in 1..Len(Columns) |-> ColumnProfile(df, Columns[i])]

\* the issues of a loop over df.columns whose body pushes PerColumn(col)
RECURSIVE Flatten(_)
Flatten(qs) == IF qs = <<>> THEN <<>> ELSE Head(qs) \o Flatten(Tail(qs))


\* ---- 2) detectMissing ---------------------------------------------------
isMissing(v) ==
    \/ StrictEq(v, Null)
    \/ StrictEq(v, Undef)
    \/ Trim(String(v)) = ""
    \/ v.t = "nan"
    \/ (v.t = "str" /\ ToLowerCase(Trim(String(v))) \in {"na", "n/a", "-", "null"})

\* a column test that wants more than the threshold, not the threshold itself
MissingOfColumnAbove(df, col) ==
    LET s == SeriesValues(df, col)
        missing == Indices(Len(s), {i \in 1..Len(s) : isMissing(s[i])})
        missingPct == IF Len(s) = 0 THEN Num(0) ELSE Rat(Len(missing), Len(s))
    IN  IF Lt(col_missing_threshold, missingPct)
        THEN <<issue("column", col, Slice(missing, 5), "missing_values",
                     IF Lt(Rat(1, 2), missingPct) THEN "high" ELSE "medium",
                     missingPct, [missingPct |-> missingPct], "impute_or_drop")>>
        ELSE <<>>

MissingOfColumn(df, col) ==
    LET s == SeriesValues(df, col)
        missing == Indices(Len(s), {i \in 1..Len(s) : isMissing(s[i])})
        missingPct == IF Len(s) = 0 THEN Num(0) ELSE Rat(Len(missing), Len(s))
    IN  IF Le(col_missing_threshold, missingPct)
        THEN <<issue("column", col, Slice(missing, 5), "missing_values",
                     IF Lt(Rat(1, 2), missingPct) THEN "high" ELSE "medium",
                     missingPct, [missingPct |-> missingPct], "impute_or_drop")>>
        ELSE <<>>

RECURSIVE SparseRowsFrom(_, _)
SparseRowsFrom(df, i) ==
    IF i > Len(df) THEN <<>>
    ELSE LET rowValues == [c \in 1..Len(Columns) |-> Get(df[i], Columns[c])]
             missingCells == Len(SelectSeq(rowValues, isMissing))
             missingFraction == Rat(missingCells, Len(rowValues))
         IN  (IF Le(row_missing_threshold, missingFraction)
              THEN <<issue("row", null, <<i - 1>>, "row_sparsity", "high", missingFraction,
                           [missingFraction |-> missingFraction], "drop_or_review")>>
              ELSE <<>>) \o SparseRowsFrom(df, i + 1)

detectMissing(df) ==
    Flatten([i \in 1..Len(Columns) |-> MissingOfColumn(df, Columns[i])]) \o SparseRowsFrom(df, 1)

\* ---- 3) detectDuplicatesAndPK -------------------------------------------
\* JSON.stringify of a cell inside an array: null, undefined and NaN all print null
JSONCell(v) ==
    CASE v.t \in {"null", "undefined", "nan"} -> "null"
      [] v.t = "num" -> NumStr(v)
      [] v.t = "bool" -> String(v)
      [] OTHER -> "\"" \o v.s \o "\""

RECURSIVE JSONJoin(_)
JSONJoin(q) ==
    IF q = <<>> THEN ""
    ELSE IF Len(q) = 1 THEN q[1]
    ELSE q[1] \o "," \o JSONJoin(Tail(q))

\* JSON.stringify(rows[i])
JSONRow(r) == "[" \o JSONJoin([c \in 1..Len(Columns) |-> JSONCell(Get(r, Columns[c]))]) \o "]"

\* the rows whose key an earlier row already has
Duplicates(df) ==
    LET keys == [i \in 1..Len(df) |-> JSONRow(df[i])]
        seenBefore == [i \in 1..Len(df) |-> \E j \in 1..(i - 1) : keys[j] = keys[i]]
    IN  Indices(Len(seenBefore), {i \in 1..Len(seenBefore) : seenBefore[i]})

\* a PK test that divides by the number of non-null values instead of the row count
PKOfColumnOverPresent(df, col) ==
    LET vals == SelectSeq(SeriesValues(df, col), NonNull)
        uniqueCount == Cardinality({String(vals[i]) : i \in 1..Len(vals)})
        frac == IF Len(vals) = 0 THEN Num(0) ELSE Rat(uniqueCount, Len(vals))
    IN  IF Le(pk_uniqueness_threshold, frac)
        THEN <<issue("column", col, <<>>, "pk_candidate", "low", frac,
                     [unique_fraction |-> frac], null)>>
        ELSE <<>>

PKOfColumn(df, col) ==
    LET vals == SelectSeq(SeriesValues(df, col), NonNull)
        uniqueCount == Cardinality({String(vals[i]) : i \in 1..Len(vals)})
        frac == IF Len(df) = 0 THEN Num(0) ELSE Rat(uniqueCount, Len(df))
    IN  IF Le(pk_uniqueness_threshold, frac)
        THEN <<issue("column", col, <<>>, "pk_candidate", "low", frac,
                     [unique_fraction |-> frac], null)>>
        ELSE <<>>

detectDuplicatesAndPK(df) ==
    LET duplicates == Duplicates(df)
    IN  (IF Len(duplicates) > 0
         THEN <<issue("dataset", null, Slice(duplicates, 10), "exact_duplicates", "high",
                      Rat(9, 10), [count |-> Len(duplicates)], "drop_or_merge")>>
         ELSE <<>>)
        \o Flatten([i \in 1..Len(Columns) |-> PKOfColumn(df, Columns[i])])

\* ---- 4) detectOutliersIQR, runOutliers ----------------------------------
\* the upper bound of detectOutliersIQR
UpperBound(Q1, Q3, k) == Add(Q3, Mul(k, Sub(Q3, Q1)))

\* the sorted numeric values of a column and the bounds taken from them
OutlierBounds(values, k) ==
    LET arr == SortNums(NumericValues(values))
        Q1 == arr[((Len(arr) * 1) \div 4) + 1]
        Q3 == arr[((Len(arr) * 3) \div 4) + 1]
        iqr == Sub(Q3, Q1)
    IN  [Q1 |-> Q1, Q3 |-> Q3,
         lower |-> Sub(Q1, Mul(k, iqr)),
         upper |-> UpperBound(Q1, Q3, k)]

detectOutliersIQR(df, col) ==
    LET original == SeriesValues(df, col)
        arr == NumericValues(original)
        b == OutlierBounds(original, outlier_iqr_k)
        outliers == Indices(Len(original), {i \in 1..Len(original) : IsOutlier(original[i], b.lower, b.upper)})
    IN  IF Len(arr) < 5 THEN <<>>
        ELSE IF Len(outliers) > 0
        THEN <<issue("column", col, Slice(outliers, 10), "outlier_iqr", "medium",
                     Rat(Len(outliers), Len(df)),
                     [lower |-> b.lower, upper |-> b.upper, count |-> Len(outliers)],
                     "review_or_cap")>>
        ELSE <<>>

runOutliers(df) ==
    Flatten([i \in 1..Len(Columns) |->
                IF inferColumnType(SeriesValues(df, Columns[i])) = "numeric"
                THEN detectOutliersIQR(df, Columns[i]) ELSE <<>>])

\* detectOutliersIQR of Analyzer/Analyzer.js: the values left by dropNa, and then
\* `nums(Math.floor(...))` calls the array, which throws a TypeError
LegacyDetectOutliersIQR(df, col) ==
    LET s == SelectSeq(SeriesValues(df, col), LAMBDA v : v.t \notin {"null", "undefined", "nan"})
        nums == NumericValues(s)
    IN  IF Len(nums) < 5 THEN [status |-> "returned", pushed |-> <<>>]
        ELSE [status |-> "threw", error |-> "TypeError"]

\* ---- 5) detectDateParsing -----------------------------------------------
\* a date detector that does not ask for the column's type
DateParsingOfAnyColumn(df, col) ==
    LET vals == Slice(SeriesValues(df, col), 200)
        failures == Len(SelectSeq(vals, LAMBDA v : DateParse(String(v)).t = "nan"))
        frac == IF Len(vals) = 0 THEN Num(0) ELSE Rat(failures, Len(vals))
    IN  IF Lt(Rat(1, 10), frac)
        THEN <<issue("column", col, <<>>, "date_parse_failures",
                     IF Lt(Rat(1, 2), frac) THEN "high" ELSE "medium",
                     frac, [failed_fraction |-> frac], "parse_with_formats")>>
        ELSE <<>>

DateParsingOfColumn(df, col) ==
    LET vals == Slice(SeriesValues(df, col), 200)
        total == Len(vals)
        failures == Len(SelectSeq(vals, LAMBDA v : DateParse(String(v)).t = "nan"))
        frac == IF total = 0 THEN Num(0) ELSE Rat(failures, total)
    IN  IF inferColumnType(SeriesValues(df, col)) # "datetime" THEN <<>>
        ELSE IF Lt(Rat(1, 10), frac)
        THEN <<issue("column", col, <<>>, "date_parse_failures",
                     IF Lt(Rat(1, 2), frac) THEN "high" ELSE "medium",
                     frac, [failed_fraction |-> frac], "parse_with_formats")>>
        ELSE <<>>

detectDateParsing(df) == Flatten([i \in 1..Len(Columns) |-> DateParsingOfColumn(df, Columns[i])])

\* ---- 6) detectCategoricalInconsistency ----------------------------------
\* fuse.search(u) cut at score < 1 - categorical_fuzzy_ratio: the items Fuse scores
\* under the cut-off for the pattern u, listed here in the order of the collection
\* (an item matches itself, and x matches y when y matches x)
FuseMatches(uniques, u) == SelectSeq(uniques, LAMBDA x : x = u \/ {u, x} \in sim)

\* the loop over uniques: a value already used starts no group
RECURSIVE ClustersFrom(_, _, _)
ClustersFrom(uniques, i, used) ==
    IF i > Len(uniques) THEN <<>>
    ELSE IF uniques[i] \in used THEN ClustersFrom(uniques, i + 1, used)
    ELSE LET group == FuseMatches(uniques, uniques[i])
             members == {group[j] : j \in 1..Len(group)}
         IN  (IF Len(group) > 1 THEN <<group>> ELSE <<>>)
             \o ClustersFrom(uniques, i + 1, used \cup members)

Uniques(df, col) ==
    LET vals == SeriesValues(df, col)
    IN  Distinct([i \in 1..Len(vals) |-> String(vals[i])])

CategoricalOfColumn(df, col) ==
    LET uniques == Uniques(df, col)
        clusters == ClustersFrom(uniques, 1, {})
    IN  IF inferColumnType(SeriesValues(df, col)) # "string" THEN <<>>
        ELSE IF Len(uniques) > 500 THEN <<>>
        ELSE IF Len(clusters) > 0
        THEN <<issue("column", col, <<>>, "categorical_inconsistency", "medium", Rat(3, 5),
                     [clusters |-> Slice(clusters, 10)], "map_or_standardize")>>
        ELSE <<>>

detectCategoricalInconsistency(df) == Flatten([i \in 1..Len(Columns) |-> CategoricalOfColumn(df, Columns[i])])

\* ---- 7) detectSuspiciousText --------------------------------------------
SuspiciousOfColumn(df, col) ==
    LET vals == SeriesValues(df, col)
        longRows == Indices(Len(vals), {i \in 1..Len(vals) : StrLen(String(vals[i])) > 1000})
        shown == Slice(longRows, 3)
    IN  IF inferColumnType(vals) # "string" THEN <<>>
        ELSE IF Len(longRows) > 0
        THEN <<issue("column", col, Slice(longRows, 10), "suspicious_text_long", "low",
                     Rat(3, 5), [examples |-> [i \in 1..Len(shown) |-> vals[shown[i] + 1]]],
                     "truncate_or_clean")>>
        ELSE <<>>

detectSuspiciousText(df) == Flatten([i \in 1..Len(Columns) |-> SuspiciousOfColumn(df, Columns[i])])

\* ---- runAll -------------------------------------------------------------
\* a pass that looks at the dates before anything else
DetectedDatesFirst(df) ==
    detectDateParsing(df) \o detectMissing(df) \o detectDuplicatesAndPK(df)
        \o runOutliers(df) \o detectCategoricalInconsistency(df)
        \o detectSuspiciousText(df)

\* what one pass of the six detector calls pushes, in the order of the calls
Detected(df) ==
    detectMissing(df) \o detectDuplicatesAndPK(df) \o runOutliers(df)
        \o detectDateParsing(df) \o detectCategoricalInconsistency(df)
        \o detectSuspiciousText(df)

(***************************************************************************)
(* The record sets and the transformations of the model                    *)
(***************************************************************************)
\* one record: the column under edit and a second column that tells the rows apart
Row(i, cell) == [c \in {"id", "a"} |-> IF c = "id" THEN Num(i) ELSE cell]

Dataset(cells) == [i \in 1..Len(cells) |-> Row(i, cells[i])]

MixedCells ==
    {Null, Undef, NaN, Num(1), Str(""), Str(" "), Str("na"), Str("abc"), Str("1"),
     Str("2024-01-05")}

NumericCells == {Null, Str("abc"), Num(1), Num(9)}

\* the two samples of the specification's section 8, and its FillMissing sample
SampleTen == <<Num(1), Num(2), Num(3), Num(4), Num(5), Num(6), Num(7), Num(8), Num(9), Num(10)>>
SampleHundred == <<Num(1), Num(2), Num(3), Num(4), Num(5), Num(100)>>
SampleMean == <<Num(1), Num(2), Null, Num(4)>>

\* the caller's records: up to MaxRows rows of mixed cells, or the FillMissing sample
MixedRecords ==
    \/ \E m \in 0..MaxRows : \E cells \in [1..m -> MixedCells] : records = Dataset(cells)
    \/ records = Dataset(SampleMean)

\* the caller's records: ClipRows rows of numeric cells, or one of the two samples
NumericRecords ==
    \/ \E cells \in [1..ClipRows -> NumericCells] : records = Dataset(cells)
    \/ records \in {Dataset(SampleTen), Dataset(SampleHundred)}

Params(k, method, strategy, value) ==
    [column |-> "a", k |-> k, method |-> method, flag_column_name |-> undefined,
     strategy |-> strategy, value |-> value]

FillParams ==
    {Params(Undef, undefined, st, Undef) : st \in {undefined, "mean", "median", "mode"}}
        \cup {Params(Undef, undefined, st, v) :
                st \in {"constant", "average"}, v \in {Undef, Null, Num(0)}}

ClipParams ==
    {Params(k, m, undefined, Undef) :
        k \in {Undef, Num(0), Rat(1, 2), Num(1)}, m \in {undefined, "clip", "flag", "remove", "trim"}}

Hosts == {"strict", "legacy"}

NoAnalyzer ==
    /\ issues = <<>>
    /\ reports = <<>>
    /\ sim = {}
    /\ cls = "none"

InitWith(ts, hosts) ==
    /\ tf \in ts
    /\ ctor = tf.params
    /\ calls = <<>>
    /\ host \in hosts
    /\ NoAnalyzer

InitCoerce ==
    /\ MixedRecords
    /\ InitWith({NewCoerceNumeric(NoParams), NewCoerceDatetime(NoParams)}, Hosts)

InitFill ==
    /\ MixedRecords
    /\ InitWith({NewFillMissing(p) : p \in FillParams}, {"strict"})

InitClip ==
    /\ NumericRecords
    /\ InitWith({NewClipOutliersIQR(p) : p \in ClipParams}, {"strict"})

Init == InitCoerce \/ InitFill \/ InitClip

(***************************************************************************)
(* Actions: one per apply method, and the caller passing a result on       *)
(***************************************************************************)
Outcome(res) ==
    IF res.status = "returned"
    THEN [status |-> "returned", records |-> res.records, evidence |-> res.evidence]
    ELSE [status |-> "threw", error |-> res.error]

Call(res) ==
    /\ Len(calls) < MaxApply
    /\ records' = res.caller
    /\ calls' = Append(calls, [input |-> records, after |-> res.caller, out |-> Outcome(res)])
    /\ UNCHANGED <<tf, ctor, issues, reports, host, sim, cls>>

ApplyCoerceNumeric == tf.name = "coerce_numeric" /\ Call(CoerceNumericApply(tf, records))

ApplyCoerceDatetime == tf.name = "coerce_datetime" /\ Call(CoerceDatetimeApply(tf, records))

ApplyFillMissing == tf.name = "fill_missing" /\ Call(FillMissingApply(tf, records))

ApplyClipOutliersIQR == tf.name = "clip_outliers_iqr" /\ Call(ClipOutliersIQRApply(tf, records))

\* the caller hands the records apply returned to the next apply
PassOn ==
    /\ calls # <<>>
    /\ Len(calls) < MaxApply
    /\ calls[Len(calls)].out.status = "returned"
    /\ records' = calls[Len(calls)].out.records
    /\ UNCHANGED <<tf, ctor, calls, issues, reports, host, sim, cls>>

NextCoerce == ApplyCoerceNumeric \/ ApplyCoerceDatetime \/ PassOn
NextFill == ApplyFillMissing \/ PassOn
NextClip == ApplyClipOutliersIQR \/ PassOn
Next == ApplyCoerceNumeric \/ ApplyCoerceDatetime \/ ApplyFillMissing \/ ApplyClipOutliersIQR \/ PassOn

SpecCoerce == InitCoerce /\ [][NextCoerce]_vars
SpecFill == InitFill /\ [][NextFill]_vars
SpecClip == InitClip /\ [][NextClip]_vars
Spec == Init /\ [][Next]_vars

\* The constructor keeps the caller's params object itself (this.params = params), and
\* apply reads this.params anew on every call: the caller, or anyone holding the
\* transformation, can set another method between construction and apply.
\* destructive was computed in the constructor and stays as it is.
SetMethod ==
    /\ tf.name = "clip_outliers_iqr"
    /\ Len(calls) < MaxApply
    /\ \E m \in {"clip", "flag", "remove"} :
          /\ m # tf.params.method
          /\ tf' = [tf EXCEPT !.params.method = m]
    /\ UNCHANGED <<records, ctor, calls, issues, reports, host, sim, cls>>

SpecParams == InitClip /\ [][ApplyClipOutliersIQR \/ PassOn \/ SetMethod]_vars

(***************************************************************************)
(* The Analyzer: its DataFrames, the constructor, runAll and the detector  *)
(* methods called on their own                                             *)
(***************************************************************************)
Frame(as, bs) ==
    [i \in 1..Len(as) |-> [c \in {"a", "b"} |-> IF c = "a" THEN as[i] ELSE bs[i]]]

ACells == {Null, Num(1), Num(1000), Str("na"), Str("abc"), Str("2024-01-05"), Str("LONG")}
BCells == {Null, Str("abc")}
TallCells == {Null, Str("abc"), Num(1000), Num(9000)}
Words == {"abc", "abd", "abe", "xyz"}

\* the DataFrame: up to MaxRows rows of mixed cells in two columns
SmallFrame ==
    \E m \in 0..MaxRows : \E as \in [1..m -> ACells], bs \in [1..m -> BCells] :
        records = Frame(as, bs)

\* the DataFrame: TallRows rows with a numeric column, or one of the two samples
TallFrame ==
    \/ \E as \in [1..TallRows -> TallCells] :
          records = Frame(as, [i \in 1..TallRows |-> Str("abc")])
    \/ records \in {Frame(SampleTen, [i \in 1..10 |-> Str("abc")]),
                    Frame(SampleHundred, [i \in 1..6 |-> Str("abc")])}

\* the DataFrame: up to MaxRows rows with a column of words
WordFrame ==
    \E m \in 0..MaxRows : \E ws \in [1..m -> Words] :
        records = Frame([i \in 1..m |-> Str(ws[i])], [i \in 1..m |-> Null])

\* new Analyzer(df) of the class in file c
NewAnalyzer(hosts, sims, classes) ==
    /\ issues = <<>>
    /\ reports = <<>>
    /\ host \in hosts
    /\ sim \in sims
    /\ cls \in classes
    /\ tf = NoTransformation
    /\ ctor = NoParams
    /\ calls = <<>>

InitAnalyzer ==
    /\ SmallFrame \/ TallFrame
    /\ NewAnalyzer(Hosts, {{}, {{"abc", "na"}}}, {"part_001"})

InitOutliers ==
    /\ TallFrame
    /\ NewAnalyzer({"strict"}, {{}}, {"part_001", "Analyzer/Analyzer.js"})

InitCluster ==
    /\ WordFrame
    /\ NewAnalyzer({"strict"}, SUBSET ({{x, y} : x, y \in Words} \ {{w} : w \in Words}),
                   {"part_001"})

\* runAll(): the detectors push to this.issues, and the report holds this.issues
RunAll ==
    /\ cls = "part_001"
    /\ Len(reports) < MaxRuns
    /\ LET schema == inferSchema(records)
           all == issues \o Detected(records)
       IN  /\ issues' = all
           /\ reports' = Append(reports, [call |-> "runAll", status |-> "returned",
                                          schema |-> schema, issues |-> all])
    /\ UNCHANGED <<records, tf, ctor, calls, host, sim, cls>>

\* detectOutliersIQR(col) called on its own
DetectOutliersIQR(col) ==
    /\ cls = "part_001"
    /\ Len(reports) < MaxRuns
    /\ issues' = issues \o detectOutliersIQR(records, col)
    /\ reports' = Append(reports, [call |-> "detectOutliersIQR", col |-> col,
                                   status |-> "returned",
                                   pushed |-> detectOutliersIQR(records, col)])
    /\ UNCHANGED <<records, tf, ctor, calls, host, sim, cls>>

\* detectOutliersIQR(col) of Analyzer/Analyzer.js called on its own
DetectOutliersIQRLegacy(col) ==
    /\ cls = "Analyzer/Analyzer.js"
    /\ Len(reports) < MaxRuns
    /\ LET res == LegacyDetectOutliersIQR(records, col)
       IN  /\ issues' = IF res.status = "returned" THEN issues \o res.pushed ELSE issues
           /\ reports' = Append(reports, [call |-> "detectOutliersIQR", col |-> col] @@ res)
    /\ UNCHANGED <<records, tf, ctor, calls, host, sim, cls>>

\* detectCategoricalInconsistency() called on its own
DetectCategoricalInconsistency ==
    /\ cls = "part_001"
    /\ Len(reports) < MaxRuns
    /\ issues' = issues \o detectCategoricalInconsistency(records)
    /\ reports' = Append(reports, [call |-> "detectCategoricalInconsistency",
                                   status |-> "returned",
                                   pushed |-> detectCategoricalInconsistency(records)])
    /\ UNCHANGED <<records, tf, ctor, calls, host, sim, cls>>

NextOutliers == \E col \in {"a", "b"} : DetectOutliersIQR(col) \/ DetectOutliersIQRLegacy(col)

SpecAnalyzer == InitAnalyzer /\ [][RunAll]_vars
SpecOutliers == InitOutliers /\ [][NextOutliers]_vars
SpecCluster == InitCluster /\ [][DetectCategoricalInconsistency]_vars

(***************************************************************************)
(* detectDuplicatesAndPK() called on its own                               *)
(***************************************************************************)
KeyCells == {Null, NaN, Num(1), Str("1"), Str("na")}
OtherCells == {Null, Str("abc"), Str("abd")}

\* a column of n rows holding the numbers 1 .. distinct, the rest repeating 1
Counted(n, distinct) == [i \in 1..n |-> IF i <= distinct THEN Num(i) ELSE Num(1)]

\* the DataFrame: up to MaxRows rows of cells that print alike or differ in type only,
\* twelve equal rows, or 100 rows with 99 and with 97 distinct values
KeyFrame ==
    \/ \E m \in 0..MaxRows : \E as \in [1..m -> KeyCells], bs \in [1..m -> OtherCells] :
          records = Frame(as, bs)
    \/ records = Frame([i \in 1..12 |-> Num(1)], [i \in 1..12 |-> Str("abc")])
    \/ \E distinct \in {97, 99} :
          records = Frame(Counted(100, distinct), [i \in 1..100 |-> Str("abc")])

InitDuplicates ==
    /\ KeyFrame
    /\ NewAnalyzer({"strict"}, {{}}, {"part_001"})

DetectDuplicatesAndPK ==
    /\ cls = "part_001"
    /\ Len(reports) < MaxRuns
    /\ issues' = issues \o detectDuplicatesAndPK(records)
    /\ reports' = Append(reports, [call |-> "detectDuplicatesAndPK", status |-> "returned",
                                   pushed |-> detectDuplicatesAndPK(records)])
    /\ UNCHANGED <<records, tf, ctor, calls, host, sim, cls>>

SpecDuplicates == InitDuplicates /\ [][DetectDuplicatesAndPK]_vars

(***************************************************************************)
(* detectMissing() called on its own                                       *)
(***************************************************************************)
InitMissing ==
    /\ \/ \E m \in 0..MaxRows : \E as \in [1..m -> KeyCells], bs \in [1..m -> OtherCells] :
             records = Frame(as, bs)
       \/ TallFrame
       \/ records = Frame([i \in 1..7 |-> Null], [i \in 1..7 |-> Str("abc")])
    /\ NewAnalyzer({"strict"}, {{}}, {"part_001"})

DetectMissing ==
    /\ cls = "part_001"
    /\ Len(reports) < MaxRuns
    /\ issues' = issues \o detectMissing(records)
    /\ reports' = Append(reports, [call |-> "detectMissing", status |-> "returned",
                                   pushed |-> detectMissing(records)])
    /\ UNCHANGED <<records, tf, ctor, calls, host, sim, cls>>

SpecMissing == InitMissing /\ [][DetectMissing]_vars

(***************************************************************************)
(* detectDateParsing() called on its own                                   *)
(***************************************************************************)
DateCells == {Null, Str(""), Str("2024-01-05"), Str("abc")}

InitDates ==
    /\ \E n \in 0..MaxRows : \E as \in [1..n -> DateCells] : \E bs \in [1..n -> {Null, Str("abc")}] :
          records = Frame(as, bs)
    /\ NewAnalyzer({"strict"}, {{}}, {"part_001", "Analyzer/Analyzer.js"})

\* In Analyzer/Analyzer.js the method hands the column's name to inferColumnType, whose
\* first step is series.filter(...): a string has no filter, so the call ends in a
\* TypeError at the first column, before anything is pushed.
DetectDateParsing ==
    /\ cls # "none"
    /\ Len(reports) < MaxRuns
    /\ LET pushed == IF cls = "part_001" THEN detectDateParsing(records) ELSE <<>>
       IN  /\ issues' = issues \o pushed
           /\ reports' = Append(reports,
                  [call |-> "detectDateParsing",
                   status |-> IF cls = "part_001" THEN "returned" ELSE "TypeError",
                   pushed |-> pushed])
    /\ UNCHANGED <<records, tf, ctor, calls, host, sim, cls>>

SpecDates == InitDates /\ [][DetectDateParsing]_vars

(***************************************************************************)
(* inferColumnType(series) called on its own, in either class              *)
(***************************************************************************)
\* the frames of the run: the small ones, and ten rows of which nine hold a date
InitSchema ==
    /\ \/ SmallFrame
       \/ \E x \in ACells :
             records = Frame([i \in 1..10 |-> IF i < 10 THEN Str("2024-01-05") ELSE x],
                             [i \in 1..10 |-> IF i < 10 THEN Num(1000) ELSE x])
    /\ NewAnalyzer(Hosts, {{}}, {"part_001", "Analyzer/Analyzer.js"})

InferColumnType(col) ==
    /\ cls # "none"
    /\ Len(reports) < MaxRuns
    /\ LET values == SeriesValues(records, col)
           res == IF cls = "part_001"
                  THEN [status |-> "returned", type |-> inferColumnType(values)]
                  ELSE LegacyInferColumnType(values)
       IN  reports' = Append(reports, [call |-> "inferColumnType", col |-> col] @@ res)
    /\ UNCHANGED <<records, tf, ctor, calls, issues, host, sim, cls>>

SpecSchema == InitSchema /\ [][\E col \in {"a", "b"} : InferColumnType(col)]_vars

(***************************************************************************)
(* runAll() of either class                                                *)
(***************************************************************************)
\* the frames of the run: the small ones, 12 equal rows, small ones with a column of
\* null, undefined and empty cells, and 50 rows of which the first 11 hold an outlier
InitRunAll ==
    /\ \/ \E m \in 0..MaxRows : \E as \in [1..m -> ACells \ {Num(1000)}], bs \in [1..m -> BCells] :
             records = Frame(as, bs)
       \/ \E x \in ACells, y \in BCells :
             records = Frame([i \in 1..12 |-> x], [i \in 1..12 |-> y])
       \/ \E m \in 0..MaxRows : \E as \in [1..m -> {Null, Undef, Str("")}],
                                    bs \in [1..m -> {Str("abc"), Str("LONG")}] :
             records = Frame(as, bs)
       \/ records = Frame([i \in 1..50 |-> IF i <= 11 THEN Num(9000) ELSE Num(1)],
                          [i \in 1..50 |-> Str("abc")])
    /\ NewAnalyzer({"strict"}, {{{"abc", "na"}}}, {"part_001", "Analyzer/Analyzer.js"})

\* runAll() of Analyzer/Analyzer.js has no try either.  Its inferSchema calls
\* inferColumnType for each column, and what that throws ends runAll; if every column
\* gets a type (the calls of the DataFrame library in between taken to return),
\* detectMissing starts its first column with s = this.df[col], an assignment to an
\* undeclared name in a class body: a ReferenceError, before anything is pushed.
RunAllLegacy ==
    /\ cls = "Analyzer/Analyzer.js"
    /\ Len(reports) < MaxRuns
    /\ reports' = Append(reports,
          [call |-> "runAll",
           status |-> IF \E i \in 1..Len(Columns) :
                            LegacyInferColumnType(SeriesValues(records, Columns[i])).status
                                = "TypeError"
                      THEN "TypeError" ELSE "ReferenceError",
           schema |-> <<>>, issues |-> <<>>])
    /\ UNCHANGED <<records, tf, ctor, calls, issues, host, sim, cls>>

SpecRunAll == InitRunAll /\ [][RunAll \/ RunAllLegacy]_vars

(***************************************************************************)
(* Properties                                                              *)
(***************************************************************************)
Column(recs) == [i \in 1..Len(recs) |-> Get(recs[i], "a")]

CallsOf(name) == IF tf.name = name THEN 1..Len(calls) ELSE {}

ReturnedCalls(name) == {i \in CallsOf(name) : calls[i].out.status = "returned"}

KOf(t) == IF t.params.k = Undef THEN DefaultK ELSE t.params.k

\* C1: every runAll on one Analyzer over the same DataFrame returns the issues of
\* that call only: the n-th report lists the same issues as the first.
C1_RunAllReturnsOwnIssues ==
    \A n \in 1..Len(reports) :
        reports[n].call = "runAll" =>
            /\ Len(reports[n].issues) = Len(reports[1].issues)
            /\ reports[n].issues = reports[1].issues

Members(cluster) == {cluster[i] : i \in 1..Len(cluster)}

\* C2: in the clusters one clustering pass emits for a column, no value is a member
\* of two clusters (every value is in one cluster or stays a singleton).
C2_ClustersAreDisjoint ==
    \A n \in 1..Len(reports) :
        reports[n].call = "detectCategoricalInconsistency" =>
            \A m \in 1..Len(reports[n].pushed) :
                LET clusters == reports[n].pushed[m].evidence.clusters
                IN  \A i, j \in 1..Len(clusters) :
                        i # j => Members(clusters[i]) \cap Members(clusters[j]) = {}

\* C3: whenever ClipOutliersIQR.apply reports bounds, they are the bounds the
\* OutlierIQRDetector takes from the same values with the same k:
\* lower = Q1 - k*iqr and upper = Q3 + k*iqr.
C3_ClipBoundsAreDetectorBounds ==
    \A i \in ReturnedCalls("clip_outliers_iqr") :
        "lower" \in DOMAIN calls[i].out.evidence =>
            LET b == OutlierBounds(Column(calls[i].input), KOf(tf))
            IN  /\ calls[i].out.evidence.lower = b.lower
                /\ calls[i].out.evidence.upper = b.upper

\* the quartile of the claim: the value at index floor(p * n), from 0, of the sorted values
NearestRank(sorted, num, den) == sorted[((Len(sorted) * num) \div den) + 1]

\* the rows the claim calls outliers: numeric and outside [Q1 - k*(Q3-Q1), Q3 + k*(Q3-Q1)]
ExpectedOutliers(values, k) ==
    LET sorted == SortNums(NumericValues(values))
        Q1 == NearestRank(sorted, 1, 4)
        Q3 == NearestRank(sorted, 3, 4)
        lo == Sub(Q1, Mul(k, Sub(Q3, Q1)))
        hi == Add(Q3, Mul(k, Sub(Q3, Q1)))
    IN  {i \in 1..Len(values) :
            Number(values[i]).t = "num" /\ (Lt(Number(values[i]), lo) \/ Lt(hi, Number(values[i])))}

\* C4: on a column with at least 5 numeric values the OutlierIQRDetector returns,
\* and reports exactly the rows whose value is numeric and outside
\* [Q1 - k*(Q3-Q1), Q3 + k*(Q3-Q1)] with the nearest-rank Q1 and Q3; for 1..10 the
\* quartiles are 3 and 8, and for [1,2,3,4,5,100] only the row of 100 is reported.
C4_DetectorReportsExactlyOutliers ==
    \A n \in 1..Len(reports) :
        LET r == reports[n]
            values == SeriesValues(records, r.col)
            expected == ExpectedOutliers(values, outlier_iqr_k)
        IN  (r.call = "detectOutliersIQR" /\ Len(NumericValues(values)) >= 5) =>
                /\ r.status = "returned"
                /\ (r.pushed = <<>>) <=> (expected = {})
                /\ r.pushed # <<>> =>
                      /\ Len(r.pushed) = 1
                      /\ r.pushed[1].issue_type = "outlier_iqr"
                      /\ r.pushed[1].evidence.count = Cardinality(expected)
                      /\ {r.pushed[1].rows[i] + 1 : i \in 1..Len(r.pushed[1].rows)} = expected
                /\ values = SampleTen =>
                      /\ NearestRank(SortNums(NumericValues(values)), 1, 4) = Num(3)
                      /\ NearestRank(SortNums(NumericValues(values)), 3, 4) = Num(8)
                /\ values = SampleHundred => r.pushed[1].rows = <<5>>

\* C5: every apply (of every transformation, returning or throwing) leaves the
\* caller's record sequence and each of its records as they were before the call.
C5_ApplyLeavesCallerRecords ==
    \A i \in 1..Len(calls) : calls[i].after = calls[i].input

\* C5 witness: an apply returned records that differ from its input, and the
\* caller's records are still the input.
C5_Witness ==
    \E i \in 1..Len(calls) :
        /\ calls[i].out.status = "returned"
        /\ calls[i].out.records # calls[i].input
        /\ tf.name = "clip_outliers_iqr"
        /\ records = calls[i].input

AllNumbers(cells) == \A i \in 1..Len(cells) : cells[i].t \in {"num", "nan"}
AllProperNumbers(cells) == \A i \in 1..Len(cells) : cells[i].t = "num"

OutputOfPrevious(i) ==
    /\ i > 1
    /\ calls[i - 1].out.status = "returned"
    /\ calls[i].input = calls[i - 1].out.records

CoerceIsNoOp(i) ==
    /\ calls[i].out.evidence.changed_count = 0
    /\ Column(calls[i].out.records) = Column(calls[i].input)

\* C6 as stated: CoerceNumeric.apply on a column whose cells are all of type number,
\* or on the output of a previous CoerceNumeric.apply, changes nothing.
C6_CoerceNumericIdempotent ==
    \A i \in ReturnedCalls("coerce_numeric") :
        (AllNumbers(Column(calls[i].input)) \/ OutputOfPrevious(i)) => CoerceIsNoOp(i)

\* C6 amended: CoerceNumeric.apply on a column whose cells are all numbers other than
\* NaN, or on the output of a previous CoerceNumeric.apply, reports changed_count = 0
\* and returns the same cell values.
C6_CoerceNumericIdempotentNoNaN ==
    \A i \in ReturnedCalls("coerce_numeric") :
        (AllProperNumbers(Column(calls[i].input)) \/ OutputOfPrevious(i)) => CoerceIsNoOp(i)

\* C6 witness: a first apply changed cells, the second apply ran on its output.
C6_Witness ==
    /\ tf.name = "coerce_numeric"
    /\ Len(calls) = 2
    /\ calls[1].out.evidence.changed_count > 1
    /\ OutputOfPrevious(2)
    /\ calls[2].out.evidence.changed_count = 0

\* C7: a ClipOutliersIQR is destructive exactly when it was constructed with
\* method "remove", before and after every apply.
C7_DestructiveIffRemove ==
    tf.name = "clip_outliers_iqr" => (tf.destructive <=> ctor.method = "remove")

\* C7 witness: a ClipOutliersIQR constructed with "remove" has been applied twice,
\* has removed a record, and is destructive.
C7_Witness ==
    /\ tf.name = "clip_outliers_iqr"
    /\ ctor.method = "remove"
    /\ tf.destructive
    /\ Len(calls) = 2
    /\ calls[1].out.evidence.removed_count > 0

\* C8: FillMissing.apply replaces every cell that isMissing holds for with the fill
\* value, and changed_count is the number of those cells.
C8_FillReplacesEveryMissing ==
    \A i \in ReturnedCalls("fill_missing") :
        LET cin == Column(calls[i].input)
            cout == Column(calls[i].out.records)
            ev == calls[i].out.evidence
        IN  /\ \A j \in 1..Len(cin) : isMissing(cin[j]) => cout[j] = ev.filled_value
            /\ ev.changed_count = Cardinality({j \in 1..Len(cin) : isMissing(cin[j])})

InvalidParam ==
    \/ tf.name = "fill_missing"
         /\ tf.params.strategy \notin {undefined, "mean", "median", "mode", "constant"}
    \/ tf.name = "clip_outliers_iqr"
         /\ tf.params.method \notin {undefined, "clip", "flag", "remove"}

\* C9: apply with an invalid parameter (an unknown fill strategy, an unknown clip
\* method) returns normally and its evidence has a reason field.
C9_InvalidParamReported ==
    InvalidParam =>
        \A i \in 1..Len(calls) :
            /\ calls[i].out.status = "returned"
            /\ "reason" \in DOMAIN calls[i].out.evidence

\* C10: CoerceDatetime.apply returns for every record set; a cell that parses as a
\* date comes back as a date string, an empty or unparseable cell as null, and the
\* evidence is {before_sample, changed_count}.
C10_CoerceDatetimeReturns ==
    \A i \in CallsOf("coerce_datetime") :
        /\ calls[i].out.status = "returned"
        /\ DOMAIN calls[i].out.evidence = {"before_sample", "changed_count"}
        /\ \A j \in 1..Len(calls[i].input) :
              LET v == Get(calls[i].input[j], "a")
                  w == Get(calls[i].out.records[j], "a")
              IN  IF FillIsEmpty(v) \/ isNaN(DatetimeParsed(v)) THEN w = Null ELSE w.t = "str"

\* a cell that holds a numeric value: a number, or text that reads as one; null,
\* undefined, NaN and empty or blank text hold none
IsNumericCell(c) ==
    \/ c.t = "num"
    \/ c.t = "str" /\ Trim(c.s) # "" /\ StringToNumber(c.s).t = "num"

InRange(c, lower, upper) == ~Lt(Number(c), lower) /\ ~Lt(upper, Number(c))

MethodOf(t) == IF t.params.method = undefined THEN "clip" ELSE t.params.method

FlagOf(t) ==
    IF t.params.flag_column_name = undefined THEN "_outliers" ELSE t.params.flag_column_name

\* the apply calls of a ClipOutliersIQR of the given method that went past the 5-value test
ClipCalls(method) ==
    {i \in ReturnedCalls("clip_outliers_iqr") :
        MethodOf(tf) = method /\ "lower" \in DOMAIN calls[i].out.evidence}

\* C11: ClipOutliersIQR.apply with method remove returns, in the input's order, exactly
\* the records whose cell is non-numeric (null and empty cells included) or lies in
\* [lower, upper], and removed_count is the input length minus the output length.
C11_RemoveKeepsNonNumericAndInRange ==
    \A i \in ClipCalls("remove") :
        LET ev == calls[i].out.evidence
            keep(r) == ~IsNumericCell(Get(r, "a")) \/ InRange(Get(r, "a"), ev.lower, ev.upper)
        IN  /\ calls[i].out.records = SelectSeq(calls[i].input, keep)
            /\ ev.removed_count = Len(calls[i].input) - Len(calls[i].out.records)

\* C12: ClipOutliersIQR.apply with method clip returns as many records as it was given;
\* a numeric cell below lower becomes lower, one above upper becomes upper, every other
\* cell is returned as it was, and changed_count is the number of capped cells.
C12_ClipCapsOnlyNumericOutliers ==
    \A i \in ClipCalls("clip") :
        LET ev == calls[i].out.evidence
            cin == Column(calls[i].input)
            cout == Column(calls[i].out.records)
            capped == {j \in 1..Len(cin) :
                          IsNumericCell(cin[j]) /\ ~InRange(cin[j], ev.lower, ev.upper)}
        IN  /\ Len(cout) = Len(cin)
            /\ \A j \in 1..Len(cin) :
                  cout[j] = IF j \notin capped THEN cin[j]
                            ELSE IF Lt(Number(cin[j]), ev.lower) THEN ev.lower ELSE ev.upper
            /\ ev.changed_count = Cardinality(capped)

\* C13: ClipOutliersIQR.apply with method flag returns as many records as it was given,
\* leaves every column but flag_column_name as it was, and sets the flag to true exactly
\* when the cell is a numeric outlier or the record's flag was already true, else false.
C13_FlagMarksOnlyNumericOutliers ==
    \A i \in ClipCalls("flag") :
        LET ev == calls[i].out.evidence
            in == calls[i].input
            out == calls[i].out.records
            flag == FlagOf(tf)
        IN  /\ Len(out) = Len(in)
            /\ \A j \in 1..Len(in) :
                  /\ DOMAIN out[j] = DOMAIN in[j] \cup {flag}
                  /\ \A c \in DOMAIN in[j] \ {flag} : out[j][c] = in[j][c]
                  /\ out[j][flag] =
                        Bool((IsNumericCell(Get(in[j], "a"))
                                /\ ~InRange(Get(in[j], "a"), ev.lower, ev.upper))
                             \/ Get(in[j], flag) = Bool(TRUE))

\* C14: with fewer than 5 numeric values in the column, ClipOutliersIQR.apply (of any
\* method) returns the input records as they are with evidence {reason: "not_enough_numeric"}.
C14_TooFewNumericIsNoOp ==
    \A i \in CallsOf("clip_outliers_iqr") :
        LET cin == Column(calls[i].input)
        IN  Cardinality({j \in 1..Len(cin) : IsNumericCell(cin[j])}) < 5 =>
                /\ calls[i].out.status = "returned"
                /\ calls[i].out.records = calls[i].input
                /\ calls[i].out.evidence = [reason |-> "not_enough_numeric"]

StrategyOf(t) == IF t.params.strategy = undefined THEN "mean" ELSE t.params.strategy

\* the numbers held by the cells of a column that are not missing and hold a numeric value
NumbersOf(cells) ==
    LET held == SelectSeq(cells, LAMBDA c : ~isMissing(c) /\ IsNumericCell(c))
    IN  [j \in 1..Len(held) |-> Number(held[j])]

\* C15: FillMissing with strategy mean fills with the sum divided by the count of the
\* numeric non-missing values of the column, and changed_count is the number of missing
\* cells; on [1,2,null,4] the fill value is 7/3 and changed_count is 1.
C15_MeanIsSumOverCount ==
    \A i \in ReturnedCalls("fill_missing") :
        LET cin == Column(calls[i].input)
            nums == NumbersOf(cin)
            ev == calls[i].out.evidence
        IN  StrategyOf(tf) = "mean" =>
                /\ nums # <<>> => ev.filled_value = DivInt(SumNums(nums), Len(nums))
                /\ ev.changed_count = Cardinality({j \in 1..Len(cin) : isMissing(cin[j])})
                /\ cin = SampleMean => ev.filled_value = Rat(7, 3) /\ ev.changed_count = 1

\* the raw non-missing values of a column that occur most often, counted by equality of
\* the values themselves (the number 1 and the string "1" are two values)
MostFrequent(cells) ==
    LET present == {j \in 1..Len(cells) : ~isMissing(cells[j])}
        count(v) == Cardinality({j \in present : cells[j] = v})
    IN  {cells[j] : j \in {x \in present : \A y \in present : count(cells[y]) <= count(cells[x])}}

\* C16: FillMissing with strategy mode fills with the most frequent raw non-missing value
\* of the column, counted under literal equality, and the fill value is that raw value.
C16_ModeIsMostFrequentRawValue ==
    \A i \in CallsOf("fill_missing") :
        LET cin == Column(calls[i].input)
        IN  (StrategyOf(tf) = "mode" /\ MostFrequent(cin) # {}) =>
                /\ calls[i].out.status = "returned"
                /\ calls[i].out.evidence.filled_value \in MostFrequent(cin)

\* the issues of one type among those a detector call pushed
OfType(pushed, type) == SelectSeq(pushed, LAMBDA x : x.issue_type = type)

\* the rows (from 0) that equal an earlier row in every column
LaterCopies(df) ==
    {j - 1 : j \in {x \in 1..Len(df) : \E i \in 1..(x - 1) : df[i] = df[x]}}

\* the k smallest members of a set of numbers, ascending
RECURSIVE FirstOf(_, _)
FirstOf(S, k) ==
    IF S = {} \/ k = 0 THEN <<>>
    ELSE LET least == CHOOSE x \in S : \A y \in S : x <= y
         IN  <<least>> \o FirstOf(S \ {least}, k - 1)

\* C17: DuplicateRowDetector flags row j exactly when an earlier row equals it in every
\* column (rows differing in one cell, null against NaN included, are not flagged); if
\* any row is flagged there is exactly one dataset-scope issue, with the first 10 flagged
\* indices at most, severity high and score 0.9, and none otherwise.
C17_DuplicatesAreEqualRows ==
    \A n \in 1..Len(reports) :
        reports[n].call = "detectDuplicatesAndPK" =>
            LET dups == OfType(reports[n].pushed, "exact_duplicates")
                flagged == LaterCopies(records)
            IN  IF flagged = {} THEN dups = <<>>
                ELSE /\ Len(dups) = 1
                     /\ dups[1].scope = "dataset"
                     /\ dups[1].rows = FirstOf(flagged, 10)
                     /\ dups[1].severity = "high"
                     /\ dups[1].score = Rat(9, 10)

\* the pk_candidate issues a call pushed are, column by column in the DataFrame's order,
\* one low-severity issue for each column whose fraction is at least 0.98, scored with it
PKIssuesAre(pushed, fraction) ==
    LET pks == OfType(pushed, "pk_candidate")
        qualifying == SelectSeq(Columns, LAMBDA col : Le(Rat(98, 100), fraction[col]))
    IN  /\ Len(pks) = Len(qualifying)
        /\ \A m \in 1..Len(pks) :
              /\ pks[m].column = qualifying[m]
              /\ pks[m].severity = "low"
              /\ pks[m].score = fraction[qualifying[m]]

\* distinct values of a column that are not missing, over the row count
FractionOfValues(df, col) ==
    LET s == SeriesValues(df, col)
    IN  IF Len(df) = 0 THEN Num(0)
        ELSE Rat(Cardinality({s[i] : i \in {j \in 1..Len(s) : ~isMissing(s[j])}}), Len(df))

\* distinct string forms of the cells of a column that are not null, undefined or blank,
\* over the row count
FractionOfTexts(df, col) ==
    LET s == SeriesValues(df, col)
    IN  IF Len(df) = 0 THEN Num(0)
        ELSE Rat(Cardinality({String(s[i]) : i \in {j \in 1..Len(s) : NonNull(s[j])}}), Len(df))

MissingRows(df, col) == {i - 1 : i \in {j \in 1..Len(df) : isMissing(Get(df[j], col))}}

\* the fraction of a column's cells that are missing
MissingFraction(df, col) ==
    IF Len(df) = 0 THEN Num(0) ELSE Rat(Cardinality(MissingRows(df, col)), Len(df))

\* C19: MissingValueDetector emits exactly one column-scope missing_values issue for each
\* column whose fraction of missing cells is at least 0.2 and none for the others; its
\* severity is high if the fraction exceeds 0.5 and medium otherwise, its score is the
\* fraction, and its rows are the first 5 missing row indices at most, ascending.
C19_MissingIssuePerSparseColumn ==
    \A n \in 1..Len(reports) :
        reports[n].call = "detectMissing" =>
            LET ms == OfType(reports[n].pushed, "missing_values")
                sparse == SelectSeq(Columns,
                                    LAMBDA col : Le(Rat(2, 10), MissingFraction(records, col)))
            IN  /\ Len(ms) = Len(sparse)
                /\ \A m \in 1..Len(ms) :
                      LET fraction == MissingFraction(records, sparse[m])
                      IN  /\ ms[m].scope = "column"
                          /\ ms[m].column = sparse[m]
                          /\ ms[m].severity = IF Lt(Rat(5, 10), fraction) THEN "high" ELSE "medium"
                          /\ ms[m].score = fraction
                          /\ ms[m].rows = FirstOf(MissingRows(records, sparse[m]), 5)

\* C19 witness: a column with 7 missing cells got its issue with 5 row indices, and in
\* another run a column with a fraction of exactly 0.2 got a medium one.
C19_Witness ==
    \E n \in 1..Len(reports) :
        /\ reports[n].call = "detectMissing"
        /\ \E m \in 1..Len(reports[n].pushed) :
              LET x == reports[n].pushed[m]
              IN  /\ x.issue_type = "missing_values"
                  /\ \/ Cardinality(MissingRows(records, x.column)) = 7 /\ Len(x.rows) = 5
                     \/ x.score = Rat(2, 10) /\ x.severity = "medium"

\* a datetime-typed column whose non-null values all parse
AllPresentDatesParse(df, col) ==
    LET vals == SeriesValues(df, col)
    IN  /\ inferColumnType(vals) = "datetime"
        /\ \A i \in 1..Len(vals) : NonNull(vals[i]) => DateParse(String(vals[i])).t # "nan"

\* C20: DateParseDetector counts parse failures among the non-null values of a
\* datetime-typed column only, so a datetime column whose non-null values all parse
\* never yields a date_parse_failures issue, whatever number of null cells it has.
C20_NullsAreNoParseFailures ==
    \A n \in 1..Len(reports) :
        reports[n].call = "detectDateParsing" =>
            \A col \in {"a", "b"} :
                AllPresentDatesParse(records, col) =>
                    \A m \in 1..Len(reports[n].pushed) :
                        ~(/\ reports[n].pushed[m].issue_type = "date_parse_failures"
                          /\ reports[n].pushed[m].column = col)

\* the sample of the type inference: the first 300 values that are not null, undefined
\* or blank, as trimmed text
SampleOf(values) ==
    LET head == Slice(SelectSeq(values, NonNull), 300)
    IN  [i \in 1..Len(head) |-> Trim(String(head[i]))]

\* the fraction of a sample that the date parser accepts, a bare run of 4 or more
\* digits never being counted
DateRatio(sample) ==
    Rat(Cardinality({i \in 1..Len(sample) :
                        ~IsPlainYear(sample[i]) /\ DateParse(sample[i]).t # "nan"}),
        Len(sample))

NumRatio(sample) ==
    Rat(Cardinality({i \in 1..Len(sample) : isStrictNumber(sample[i])}), Len(sample))

\* C21: over the first 300 non-null values the date check comes before the numeric one:
\* a column is datetime when dateRatio >= 0.9 (even if numRatio >= 0.9 too), numeric only
\* when dateRatio < 0.9 and numRatio >= 0.9, and string otherwise; a bare digit string of
\* length 4 or more never counts as a date.
C21_DateCheckBeforeNumeric ==
    \A n \in 1..Len(reports) :
        LET sample == SampleOf(SeriesValues(records, reports[n].col))
        IN  (reports[n].call = "inferColumnType" /\ Len(sample) > 0) =>
                /\ reports[n].status = "returned"
                /\ reports[n].type = IF Le(Rat(9, 10), DateRatio(sample)) THEN "datetime"
                                     ELSE IF Le(Rat(9, 10), NumRatio(sample)) THEN "numeric"
                                     ELSE "string"

\* the reports of the runAll calls that returned one
RunAllReports == {n \in 1..Len(reports) : reports[n].call = "runAll" /\ reports[n].status = "returned"}

\* the inferred type the schema of a report gives a column (the schema lists the
\* columns in the order of df.columns)
TypeIn(schema, col) == schema[CHOOSE i \in 1..Len(Columns) : Columns[i] = col].inferred_type

\* the issues of a report that are of the given type and on the given column
IssuesOn(report, type, col) ==
    {m \in 1..Len(report.issues) :
        report.issues[m].issue_type = type /\ report.issues[m].column = col}

\* the type of column each typed detector acts on
DetectorType ==
    [outlier_iqr |-> "numeric", date_parse_failures |-> "datetime",
     categorical_inconsistency |-> "string", suspicious_text_long |-> "string"]

\* C22: a column whose values are all null, undefined or empty is classified "empty",
\* and runAll emits no outlier_iqr, date_parse_failures, categorical_inconsistency or
\* suspicious_text_long issue for it: each of these detectors only acts on columns of
\* its own type (numeric, datetime, string, string).
C22_EmptyColumnGetsNoTypedIssue ==
    \A n \in RunAllReports : \A col \in {"a", "b"} :
        /\ (\A i \in 1..Len(records) : ~NonNull(Get(records[i], col))) =>
              /\ TypeIn(reports[n].schema, col) = "empty"
              /\ \A type \in DOMAIN DetectorType : IssuesOn(reports[n], type, col) = {}
        /\ \A type \in DOMAIN DetectorType :
              IssuesOn(reports[n], type, col) # {} =>
                  TypeIn(reports[n].schema, col) = DetectorType[type]

\* C22 witness: a report over a DataFrame in which column a holds a null, an undefined
\* and an empty cell and nothing else, and a typed detector did report on column b.
C22_Witness ==
    \E n \in RunAllReports :
        /\ \A i \in 1..Len(records) : ~NonNull(Get(records[i], "a"))
        /\ {Null, Undef, Str("")} \subseteq {Get(records[i], "a") : i \in 1..Len(records)}
        /\ TypeIn(reports[n].schema, "a") = "empty"
        /\ \E type \in DOMAIN DetectorType : IssuesOn(reports[n], type, "b") # {}

\* C23: a failure of one detector, or of one detector on one column, during runAll is
\* not propagated to the caller: every runAll call returns a report {schema, issues}.
C23_RunAllNeverThrows ==
    \A n \in 1..Len(reports) :
        reports[n].call = "runAll" => reports[n].status = "returned"

\* C24: every issue in every report returned by runAll has a score in [0,1], and its
\* rows list holds at most 10 indices (at most 5 for a per-column missing_values
\* issue), each a valid row index of the dataset.
C24_ScoresAndRowsAreBounded ==
    \A n \in RunAllReports : \A m \in 1..Len(reports[n].issues) :
        LET x == reports[n].issues[m]
        IN  /\ x.score.t = "num"
            /\ Le(Num(0), x.score) /\ Le(x.score, Num(1))
            /\ Len(x.rows) <= (IF x.issue_type = "missing_values" THEN 5 ELSE 10)
            /\ \A k \in 1..Len(x.rows) : x.rows[k] \in 0..(Len(records) - 1)

\* C24 witness: a report over 12 or more rows in which one issue lists 10 rows and a
\* missing_values issue lists 5, or one in which 11 outliers are reported by 10 rows.
C24_Witness ==
    \E n \in RunAllReports :
        /\ Len(records) >= 12
        /\ \/ /\ \E m \in 1..Len(reports[n].issues) :
                    /\ reports[n].issues[m].issue_type = "exact_duplicates"
                    /\ Len(reports[n].issues[m].rows) = 10
              /\ \E m \in 1..Len(reports[n].issues) :
                    /\ reports[n].issues[m].issue_type = "missing_values"
                    /\ Len(reports[n].issues[m].rows) = 5
           \/ \E m \in 1..Len(reports[n].issues) :
                 /\ reports[n].issues[m].issue_type = "outlier_iqr"
                 /\ reports[n].issues[m].evidence.count = 11
                 /\ Len(reports[n].issues[m].rows) = 10

\* the place of an issue type in the order of the detectors
DetectorRank ==
    [missing_values |-> 1, row_sparsity |-> 2, exact_duplicates |-> 3, pk_candidate |-> 4,
     outlier_iqr |-> 5, date_parse_failures |-> 6, categorical_inconsistency |-> 7,
     suspicious_text_long |-> 8]

\* C25: within one runAll the issues sequence is append-only and follows the fixed
\* detector order (missing_values, row_sparsity, exact_duplicates, pk_candidate,
\* outlier_iqr, date_parse_failures, categorical_inconsistency, suspicious_text_long);
\* an issue once appended is never moved, changed or removed, and the schema is the
\* one built from the DataFrame as the call found it.
C25_IssuesAppendedInDetectorOrder ==
    [][LET added == SubSeq(issues', Len(issues) + 1, Len(issues'))
       IN  /\ Len(issues') >= Len(issues)
           /\ SubSeq(issues', 1, Len(issues)) = issues
           /\ \A i, j \in 1..Len(added) :
                 i < j => DetectorRank[added[i].issue_type] <= DetectorRank[added[j].issue_type]
           /\ (Len(reports') > Len(reports) /\ reports'[Len(reports')].status = "returned") =>
                 /\ reports'[Len(reports')].schema = inferSchema(records)
                 /\ reports'[Len(reports')].issues = issues']_vars

\* C25 witness: a second runAll has appended its issues, a missing_values and a
\* date_parse_failures issue among them, behind those of the first.
C25_Witness ==
    /\ Len(reports) = 2
    /\ reports[2].status = "returned"
    /\ Len(reports[2].issues) = 2 * Len(reports[1].issues)
    /\ \E i, j \in 1..Len(reports[1].issues) :
          /\ reports[1].issues[i].issue_type = "missing_values"
          /\ reports[1].issues[j].issue_type = "date_parse_failures"

\* C26: constructing a transformation with misconfigured params (a clip method outside
\* clip, flag, remove; a fill strategy outside mean, median, mode, constant) fails at
\* construction time, so there is no misconfigured transformation object on which
\* apply is ever called.
C26_MisconfiguredIsNeverApplied == InvalidParam => calls = <<>>

\* C27: for a transformation whose destructive field is false, after any sequence of
\* apply calls and any change of its params made after construction, apply returns
\* exactly as many records as it was given.
C27_NonDestructiveKeepsRecordCount ==
    ~tf.destructive =>
        \A i \in 1..Len(calls) :
            calls[i].out.status = "returned" =>
                Len(calls[i].out.records) = Len(calls[i].input)

\* C28: FillMissing.apply on the records its first apply returned, with the same
\* parameters, reports changed_count = 0 and returns records equal to its input, for
\* every strategy and column (a column with no non-missing value and a constant fill
\* value that is null or empty included).
C28_FillMissingIdempotent ==
    \A i \in CallsOf("fill_missing") :
        OutputOfPrevious(i) =>
            /\ calls[i].out.status = "returned"
            /\ calls[i].out.evidence.changed_count = 0
            /\ calls[i].out.records = calls[i].input

\* C29: ClipOutliersIQR.apply with method clip on the records its first apply returned,
\* with the same column and k, reports changed_count = 0: the bounds recomputed from
\* the clipped data cap no further value, for every k >= 0.
C29_ClipIdempotent ==
    \A i \in ClipCalls("clip") :
        (OutputOfPrevious(i) /\ "changed_count" \in DOMAIN calls[i].out.evidence) =>
            calls[i].out.evidence.changed_count = 0

\* C30: in the outlier detector a null or empty cell is a non-numeric value: it is not
\* counted towards the 5-value minimum (a column with fewer than 5 numeric cells gets
\* no issue), and its row is never reported as an outlier.
C30_NullCellsAreNotNumeric ==
    \A n \in 1..Len(reports) :
        (reports[n].call = "detectOutliersIQR" /\ reports[n].status = "returned") =>
            LET vals == SeriesValues(records, reports[n].col)
                numeric == {i \in 1..Len(vals) : IsNumericCell(vals[i])}
            IN  /\ Cardinality(numeric) < 5 => reports[n].pushed = <<>>
                /\ \A m \in 1..Len(reports[n].pushed) :
                      \A k \in 1..Len(reports[n].pushed[m].rows) :
                          reports[n].pushed[m].rows[k] + 1 \in numeric

====
